---- MODULE Spec2Model ----
(***************************************************************************)
(* A state-machine model of pyvoog's model base layer (pyvoog/model.py)    *)
(* and of its routing record (pyvoog/router/endpoint.py).                  *)
(*                                                                         *)
(* The module holds one group of variables per part of the program, and    *)
(* one specification per part.  A specification drives its own group and   *)
(* holds the other groups at their idle values.                            *)
(***************************************************************************)
EXTENDS Integers, Sequences, FiniteSets, TLC

VARIABLES
    heap,          \* Endpoint: the list objects, by reference (index)
    endpoints,     \* Endpoint: the constructed instances, in order
    epLast,        \* Endpoint: the last operation and what it was given
    epPrev,        \* Endpoint: every instance's methods before the last operation
    sysOffset,     \* UTCTimeStamp: the UTC offset of the system time zone
    tsIn,          \* UTCTimeStamp: the value handed to the column
    tsBound,       \* UTCTimeStamp: what process_bind_param returned
    tsStored,      \* UTCTimeStamp: what the database hands back
    tsOut,         \* UTCTimeStamp: what process_result_value returned
    tsPc,          \* UTCTimeStamp: how far the value has travelled
    scopeAttr,     \* Model: the class attribute default_scope
    scopeEnv,      \* Model: what default_scope() returns when called now
    query,         \* Model: the statement last returned
    qLast,         \* Model: the last query call, with the scope at its time
    body,          \* Model: the class body being turned into a model class
    cls,           \* Model: the model class (columns, class dict, schema)
    clsPc,         \* Model: how far class creation has come
    objs,          \* Model: the instances' backing columns
    ret,           \* Model: the last operation on an instance and its outcome
    schemaReports, \* Model: the errors schema.validate returns when asked
    validatableDoes \* Model: what each Validatable's is_valid does when asked

epVars == <<heap, endpoints, epLast, epPrev>>
tsVars == <<sysOffset, tsIn, tsBound, tsStored, tsOut, tsPc>>
qVars == <<scopeAttr, scopeEnv, query, qLast>>

clsVars == <<body, cls, clsPc>>
objVars == <<objs, ret, schemaReports, validatableDoes>>

vars == <<epVars, tsVars, qVars, clsVars, objVars>>

\* What an operation of one part leaves alone: the other parts.
EpFrame == UNCHANGED <<tsVars, qVars, clsVars, objVars>>
TsFrame == UNCHANGED <<epVars, qVars, clsVars, objVars>>
QFrame == UNCHANGED <<epVars, tsVars, clsVars, objVars>>
ClsFrame == UNCHANGED <<epVars, tsVars, qVars, objVars>>
ObjFrame == UNCHANGED <<epVars, tsVars, qVars, clsVars>>

(***************************************************************************)
(* Generic helpers.                                                        *)
(***************************************************************************)
\* A Python str is the sequence of its characters.
startswith(str, ch) == Len(str) > 0 /\ str[1] = ch

\* The elements of a sequence.
Range(seq) == {seq[i] : i \in 1..Len(seq)}

RECURSIVE SeqSum(_)
SeqSum(seq) == IF seq = <<>> THEN 0 ELSE Head(seq) + SeqSum(Tail(seq))

\* How many times x occurs in seq.
Count(seq, x) == Cardinality({i \in 1..Len(seq) : seq[i] = x})

(***************************************************************************)
(* Endpoint (pyvoog/router/endpoint.py).                                   *)
(*                                                                         *)
(* Python evaluates a default argument once, when the function is          *)
(* defined: `methods=["GET"]` is ONE list object, and every call that      *)
(* omits `methods` stores a reference to that same object.  The lists      *)
(* therefore live in a heap and an instance holds a reference.             *)
(***************************************************************************)
MaxEndpoints == 3
MaxMethods == 2

Paths == {"/a", "/b"}
Actions == {"index", "show"}
Verbs == {"GET", "POST"}

\* The reference of the list object built by the `def` statement.
DefaultMethodsRef == 1

\* heap after `def __init__(self, path, action, methods=["GET"])` has run.
EndpointDef == << <<"GET">> >>

\* Endpoint.__init__: the three assignments; `methods` is stored as given.
Endpoint(path, action, methodsRef) ==
    [path |-> path, action |-> action, methods |-> methodsRef]

Methods(e) == heap[endpoints[e].methods]

AllMethods == [e \in 1..Len(endpoints) |-> Methods(e)]

\* Endpoint(path, action): the call omits `methods`.
Construct(path, action) ==
    /\ Len(endpoints) < MaxEndpoints
    /\ endpoints' = Append(endpoints, Endpoint(path, action, DefaultMethodsRef))
    /\ epLast' = [op |-> "new", ep |-> Len(endpoints) + 1, path |-> path,
                  action |-> action, dflt |-> TRUE]
    /\ epPrev' = AllMethods
    /\ UNCHANGED heap
    /\ EpFrame

\* Endpoint(path, action, methods): the caller passes a list of its own.
ConstructWith(path, action, ms) ==
    /\ Len(endpoints) < MaxEndpoints
    /\ heap' = Append(heap, ms)
    /\ endpoints' = Append(endpoints, Endpoint(path, action, Len(heap) + 1))
    /\ epLast' = [op |-> "new", ep |-> Len(endpoints) + 1, path |-> path,
                  action |-> action, dflt |-> FALSE]
    /\ epPrev' = AllMethods
    /\ EpFrame

\* endpoint.methods.append(verb)
AppendMethod(e, verb) ==
    /\ e \in 1..Len(endpoints)
    /\ Len(Methods(e)) < MaxMethods
    /\ heap' = [heap EXCEPT ![endpoints[e].methods] = Append(@, verb)]
    /\ epLast' = [op |-> "mutate", ep |-> e,
                  dflt |-> endpoints[e].methods = DefaultMethodsRef]
    /\ epPrev' = AllMethods
    /\ UNCHANGED endpoints
    /\ EpFrame

\* endpoint.methods.pop()
PopMethod(e) ==
    /\ e \in 1..Len(endpoints)
    /\ Len(Methods(e)) > 0
    /\ heap' = [heap EXCEPT ![endpoints[e].methods] = SubSeq(@, 1, Len(@) - 1)]
    /\ epLast' = [op |-> "mutate", ep |-> e,
                  dflt |-> endpoints[e].methods = DefaultMethodsRef]
    /\ epPrev' = AllMethods
    /\ UNCHANGED endpoints
    /\ EpFrame

MethodLists == {<<>>} \cup {<<v>> : v \in Verbs}

(***************************************************************************)
(* UTCTimeStamp (pyvoog/model.py).                                         *)
(*                                                                         *)
(* A datetime is its wall-clock reading (in hours), whether it is aware,   *)
(* and its UTC offset when aware.  None is the value bound or loaded for   *)
(* an SQL NULL.                                                            *)
(***************************************************************************)
MaxWall == 3
MaxOffset == 2

Walls == 0..MaxWall
Offsets == (0 - MaxOffset)..MaxOffset

Naive(w) == [kind |-> "datetime", wall |-> w, aware |-> FALSE, off |-> 0]
Aware(w, o) == [kind |-> "datetime", wall |-> w, aware |-> TRUE, off |-> o]
NoneDt == [kind |-> "None"]
AttributeErrorDt == [kind |-> "AttributeError"]
NoDt == [kind |-> "unset"]

IsDatetime(d) == d.kind = "datetime"
IsAware(d) == IsDatetime(d) /\ d.aware
IsNaive(d) == IsDatetime(d) /\ ~d.aware

\* The point in time an aware datetime denotes.
Instant(d) == d.wall - d.off

\* datetime.astimezone(timezone.utc): a naive datetime is taken to be in the
\* system time zone.
astimezone_utc(d) ==
    IF d.aware THEN Aware(d.wall - d.off, 0)
    ELSE Aware(d.wall - sysOffset, 0)

\* datetime.replace(tzinfo=timezone.utc)
replace_tzinfo_utc(d) == Aware(d.wall, 0)

\* A process_bind_param that relabels instead of converting.
process_bind_param_relabel(value) ==
    IF ~IsDatetime(value) THEN AttributeErrorDt
    ELSE replace_tzinfo_utc(value)

process_bind_param(value) ==
    IF ~IsDatetime(value) THEN AttributeErrorDt
    ELSE astimezone_utc(value)

process_result_value(value) ==
    IF ~IsDatetime(value) THEN AttributeErrorDt
    ELSE IF ~value.aware THEN replace_tzinfo_utc(value)
    ELSE astimezone_utc(value)

\* session.add / flush: the value is bound.
Bind ==
    /\ tsPc = "new"
    /\ tsBound' = process_bind_param(tsIn)
    /\ tsPc' = "bound"
    /\ UNCHANGED <<sysOffset, tsIn, tsStored, tsOut>>
    /\ TsFrame

\* The database stores the bound value and drops its time zone information
\* (SQLite).
StoreNaive ==
    /\ tsPc = "bound"
    /\ IsDatetime(tsBound)
    /\ tsStored' = Naive(tsBound.wall)
    /\ tsPc' = "stored"
    /\ UNCHANGED <<sysOffset, tsIn, tsBound, tsOut>>
    /\ TsFrame

\* The database keeps the instant and hands it back in a time zone of its own.
StoreAware(o) ==
    /\ tsPc = "bound"
    /\ IsDatetime(tsBound)
    /\ tsStored' = Aware(Instant(tsBound) + o, o)
    /\ tsPc' = "stored"
    /\ UNCHANGED <<sysOffset, tsIn, tsBound, tsOut>>
    /\ TsFrame

\* A row is loaded: the stored value is converted.
Load ==
    /\ tsPc = "stored"
    /\ tsOut' = process_result_value(tsStored)
    /\ tsPc' = "loaded"
    /\ UNCHANGED <<sysOffset, tsIn, tsBound, tsStored>>
    /\ TsFrame

\* A row written by another program is loaded: any stored value.
LoadForeign(d) ==
    /\ tsPc = "new"
    /\ tsStored' = d
    /\ tsOut' = process_result_value(d)
    /\ tsPc' = "foreign"
    /\ UNCHANGED <<sysOffset, tsIn, tsBound>>
    /\ TsFrame

Datetimes ==
    {Naive(w) : w \in Walls} \cup {Aware(w, o) : w \in Walls, o \in Offsets}

(***************************************************************************)
(* Default scopes (pyvoog/model.py, Model.get_scoped_query).               *)
(*                                                                         *)
(* A statement is what it selects, the table given to select_from (or      *)
(* none), and the set of keyword conditions given to filter_by.            *)
(***************************************************************************)
MaxArgs == 2

ScopeKeys == {"tenant_id", "deleted"}
ScopeValues == {"x", "y"}
SelectArgs == {"id", "title"}

\* The dicts default_scope() may return.
ScopeDicts ==
    UNION {[ks -> ScopeValues] : ks \in SUBSET ScopeKeys}

Conditions(d) == {<<k, d[k]>> : k \in DOMAIN d}

\* select(cls)
select_model == [columns |-> <<"Model">>, from |-> "", where |-> {}]

\* select(*args)
select(args) == [columns |-> args, from |-> "", where |-> {}]

\* Select.select_from(cls)
select_from(q, table) == [q EXCEPT !.from = table]

\* Select.filter_by(**kwargs)
filter_by(q, kwargs) == [q EXCEPT !.where = @ \cup Conditions(kwargs)]

\* getattr(cls, "default_scope", None) is truthy
ScopeTruthy(attr) == attr = "callable"

\* A get_scoped_query that forgets the scope when arguments are passed.
get_scoped_query_unscoped_args(args) ==
    LET q == IF args # <<>> THEN select_from(select(args), "Model")
             ELSE select_model
    IN  IF ScopeTruthy(scopeAttr) /\ args = <<>> THEN filter_by(q, scopeEnv) ELSE q

get_scoped_query(args) ==
    LET q == IF args # <<>> THEN select_from(select(args), "Model")
             ELSE select_model
    IN  IF ScopeTruthy(scopeAttr) THEN filter_by(q, scopeEnv) ELSE q

\* The scoped_query property.
scoped_query == get_scoped_query(<<>>)

\* Model.get_scoped_query(*args)
GetScopedQuery(args) ==
    /\ query' = get_scoped_query(args)
    /\ qLast' = [op |-> "get_scoped_query", args |-> args, scope |-> scopeEnv]
    /\ UNCHANGED <<scopeAttr, scopeEnv>>
    /\ QFrame

\* Model.scoped_query
ScopedQuery ==
    /\ query' = scoped_query
    /\ qLast' = [op |-> "scoped_query", args |-> <<>>, scope |-> scopeEnv]
    /\ UNCHANGED <<scopeAttr, scopeEnv>>
    /\ QFrame

\* Whatever default_scope() reads changes (the current tenant, say).
SetScopeEnv(d) ==
    /\ d # scopeEnv
    /\ scopeEnv' = d
    /\ UNCHANGED <<scopeAttr, query, qLast>>
    /\ QFrame

ArgLists ==
    UNION {[1..n -> SelectArgs] : n \in 0..MaxArgs}

(***************************************************************************)
(* Model classes (pyvoog/model.py): the class body, ModelMetaclass and     *)
(* SchemaGenerator.                                                        *)
(*                                                                         *)
(* A column is its name, its type (the SQL type and the String length, a   *)
(* set that is empty for length None), whether it is nullable, whether it  *)
(* is a SchemalessColumn and whether it is a Validatable.  The class dict  *)
(* keeps its entries in order; only its VirtualAttribute entries are kept. *)
(***************************************************************************)
MaxStringLength == 1
NumObjs == 2

N_id == <<"i", "d">>
N_title == <<"t", "i", "t", "l", "e">>
N_schemaless == <<"s", "c", "h", "e", "m", "a", "l", "e", "s", "s">>
N_extra == <<"e", "x", "t", "r", "a">>
N_created_at == <<"c", "r", "e", "a", "t", "e", "d", "_", "a", "t">>
N_updated_at == <<"u", "p", "d", "a", "t", "e", "d", "_", "a", "t">>
N_a == <<"a">>
N_b == <<"b">>
N_c == <<"_", "c">>

\* pyvoog.util.Undefined, Python's None, and the values a program stores.
Undefined == "Undefined"
PyNone == "None"
Values == {"v1", "v2"}

Column(name, type, nullable) ==
    [name |-> name, type |-> type, nullable |-> nullable,
     schemaless |-> FALSE, validatable |-> FALSE]

\* A Column that also is a Validatable.
ValidatableColumn(name, type, nullable) ==
    [Column(name, type, nullable) EXCEPT !.validatable = TRUE]

\* SchemalessColumn(**kwargs): a nullable JSON column.
SchemalessColumn(name) ==
    [name |-> name, type |-> [sql |-> "JSON", length |-> {}], nullable |-> TRUE,
     schemaless |-> TRUE, validatable |-> FALSE]

\* Model.id = Column(Integer, primary_key=True)
IdColumn == Column(N_id, [sql |-> "Integer", length |-> {}], FALSE)

\* VirtualAttribute(default, schemaless_field): no name is attached yet.
VirtualAttribute(default, schemaless_field) ==
    [default |-> default, schemaless_field |-> schemaless_field,
     bound |-> FALSE, attr_name |-> <<>>]

\* VirtualAttribute._set_attr_name
_set_attr_name(v, attr_name) == [v EXCEPT !.bound = TRUE, !.attr_name = attr_name]

\* ModelMetaclass._set_va_attr_names, over the class dict's VirtualAttributes.
_set_va_attr_names(dict) ==
    [i \in 1..Len(dict) |->
        IF startswith(dict[i].key, "_") THEN dict[i]
        ELSE [dict[i] EXCEPT !.va = _set_attr_name(@, dict[i].key)]]

TimestampColumn(name) ==
    Column(name, [sql |-> "UTCTimeStamp", length |-> {}], TRUE)

\* ModelMetaclass._declare_timestamps
_declare_timestamps(columns, include_timestamps) ==
    IF ~include_timestamps THEN columns
    ELSE columns \o <<TimestampColumn(N_created_at), TimestampColumn(N_updated_at)>>

\* ModelMetaclass.__init__: the declarative class (the table's columns, Model.id
\* first), then the two hooks.
ModelMetaclass_init(b) ==
    [columns |-> _declare_timestamps(<<IdColumn>> \o b.columns, b.include_timestamps),
     dict |-> _set_va_attr_names(b.dict),
     schema |-> [ok |-> FALSE, error |-> "unset", fields |-> <<>>]]

\* dict[key] = value on a dict kept as the sequence of its items.
DictSet(d, key, value) ==
    IF \E i \in 1..Len(d) : d[i].key = key
    THEN [i \in 1..Len(d) |-> IF d[i].key = key THEN [key |-> key, value |-> value]
                               ELSE d[i]]
    ELSE Append(d, [key |-> key, value |-> value])

\* dict.update(other)
RECURSIVE DictUpdate(_, _)
DictUpdate(d, other) ==
    IF other = <<>> THEN d
    ELSE DictUpdate(DictSet(d, Head(other).key, Head(other).value), Tail(other))

DictKeys(d) == {d[i].key : i \in 1..Len(d)}
DictGet(d, key) == (CHOOSE i \in 1..Len(d) : d[i].key = key)

\* A marshmallow field: its class, allow_none, required and the maximum
\* lengths its validator allows (none without a validator).
Field(kind, allow_none, required, validate) ==
    [kind |-> kind, allow_none |-> allow_none, required |-> required,
     validate |-> validate]

skipped_fields == {N_id}

\* SchemaGenerator._get_column_schema that skips no SchemalessColumn.
_get_column_schema_no_skip(c) ==
    IF c.name \in skipped_fields THEN <<>>
    ELSE LET kind == IF c.type.sql = "Boolean" THEN "Boolean"
                     ELSE IF c.type.sql = "Integer" THEN "Integer"
                     ELSE IF c.type.sql = "String" THEN "Str"
                     ELSE "Field"
             validate == IF c.type.sql = "String" THEN c.type.length ELSE {}
         IN  << [key |-> c.name,
                 value |-> Field(kind, c.nullable, ~c.nullable, validate)] >>

\* SchemaGenerator._get_column_schema: the dict for one column, empty when the
\* column is skipped.
_get_column_schema(c) ==
    IF c.name \in skipped_fields \/ c.schemaless THEN <<>>
    ELSE LET kind == IF c.type.sql = "Boolean" THEN "Boolean"
                     ELSE IF c.type.sql = "Integer" THEN "Integer"
                     ELSE IF c.type.sql = "String" THEN "Str"
                     ELSE "Field"
             validate == IF c.type.sql = "String" THEN c.type.length ELSE {}
         IN  << [key |-> c.name,
                 value |-> Field(kind, c.nullable, ~c.nullable, validate)] >>

\* SchemaGenerator._get_vattrs / Model._get_vattrs: the class dict's
\* VirtualAttributes, in the dict's order.
_get_vattrs(klass) == [i \in 1..Len(klass.dict) |-> klass.dict[i].va]

RECURSIVE ColumnsSchema(_, _)
ColumnsSchema(schema_dict, columns) ==
    IF columns = <<>> THEN schema_dict
    ELSE ColumnsSchema(DictUpdate(schema_dict, _get_column_schema(Head(columns))),
                       Tail(columns))

RECURSIVE VattrsSchema(_, _)
VattrsSchema(schema_dict, vattrs) ==
    IF vattrs = <<>> THEN schema_dict
    ELSE VattrsSchema(DictSet(schema_dict, Head(vattrs).attr_name,
                              Field("Field", TRUE, FALSE, {})),
                      Tail(vattrs))

\* SchemaGenerator.generate_schema.  `vattr.name` of a VirtualAttribute no
\* name was attached to is an AttributeError.
generate_schema(klass) ==
    IF \E i \in 1..Len(klass.dict) : ~klass.dict[i].va.bound
    THEN [ok |-> FALSE, error |-> "AttributeError", fields |-> <<>>]
    ELSE [ok |-> TRUE, error |-> "",
          fields |-> VattrsSchema(ColumnsSchema(<<>>, klass.columns),
                                  _get_vattrs(klass))]

\* The class statement has run: the metaclass creates the class.
MetaclassInit ==
    /\ clsPc = "body"
    /\ cls' = ModelMetaclass_init(body)
    /\ clsPc' = "created"
    /\ UNCHANGED body
    /\ ClsFrame

\* Mapper configuration calls Model.__declare_last__.
DeclareLast ==
    /\ clsPc = "created"
    /\ cls' = [cls EXCEPT !.schema = generate_schema(cls)]
    /\ clsPc' = IF generate_schema(cls).ok THEN "mapped" ELSE "failed"
    /\ UNCHANGED body
    /\ ClsFrame

\* The class bodies tried.
ColumnTypes ==
    {[sql |-> t, length |-> {}] : t \in {"Boolean", "Integer", "String", "DateTime"}}
        \cup {[sql |-> "String", length |-> {n}] : n \in 1..MaxStringLength}

TitleColumns ==
    {Column(N_title, t, n) : t \in ColumnTypes, n \in BOOLEAN}
        \cup {ValidatableColumn(N_title, t, n) : t \in ColumnTypes, n \in BOOLEAN}

Entry(key, default, schemaless_field) ==
    [key |-> key, va |-> VirtualAttribute(default, schemaless_field)]

\* The sequences over S without repetition, in a fixed order of S's choosing.
RECURSIVE SeqOfSet(_)
SeqOfSet(S) ==
    IF S = {} THEN <<>>
    ELSE LET x == CHOOSE y \in S : TRUE IN <<x>> \o SeqOfSet(S \ {x})

Body(columns, dict, include_timestamps) ==
    [columns |-> columns, dict |-> dict, include_timestamps |-> include_timestamps]

ClassBodies ==
    {Body(title \o <<SchemalessColumn(N_schemaless)>> \o extra,
          SeqOfSet({Entry(k, Undefined, N_schemaless) : k \in keys}), ts) :
        title \in {<<>>} \cup {<<c>> : c \in TitleColumns},
        extra \in {<<>>, <<SchemalessColumn(N_extra)>>},
        keys \in SUBSET {N_a, N_b, N_c},
        ts \in BOOLEAN}

NoClass == [columns |-> <<>>, dict |-> <<>>,
            schema |-> [ok |-> FALSE, error |-> "unset", fields |-> <<>>]]

(***************************************************************************)
(* Instances (pyvoog/model.py): VirtualAttribute's descriptor protocol and *)
(* Model's attribute setter.                                               *)
(*                                                                         *)
(* An instance is the values of its schemaless columns: each is None or a  *)
(* dict.  The result of an operation is how it ended (a return or the      *)
(* exception raised) and the value returned.                               *)
(***************************************************************************)
Objs == 1..NumObjs

ColNone == [isNone |-> TRUE, d |-> << >>]
ColDict(d) == [isNone |-> FALSE, d |-> d]

Return(value) == [outcome |-> "return", value |-> value]
Raise(exception) == [outcome |-> exception, value |-> Undefined]

\* The class dict's entry under `key`, and whether there is one.
IsVattr(klass, key) == \E i \in 1..Len(klass.dict) : klass.dict[i].key = key
Vattr(klass, key) ==
    klass.dict[CHOOSE i \in 1..Len(klass.dict) : klass.dict[i].key = key].va

\* Model(): a new instance, every column None.
NewObject(klass) ==
    [f \in {c.name : c \in {x \in Range(klass.columns) : x.schemaless}} |-> ColNone]

\* VirtualAttribute.__get__: getattr(obj, self.schemaless_field)[self.attr_name].
\* Subscripting None is a TypeError, a missing key a KeyError; either is
\* re-raised as it is when no default was given.
__get__(va, obj) ==
    IF va.schemaless_field \notin DOMAIN obj \/ ~va.bound THEN Raise("AttributeError")
    ELSE LET col == obj[va.schemaless_field] IN
         IF col.isNone
         THEN (IF va.default = Undefined THEN Raise("TypeError")
               ELSE Return(va.default))
         ELSE IF va.attr_name \notin DOMAIN col.d
         THEN (IF va.default = Undefined THEN Raise("KeyError")
               ELSE Return(va.default))
         ELSE Return(col.d[va.attr_name])

\* VirtualAttribute.__set__: it reads and writes obj.schemaless, whatever
\* self.schemaless_field names.  The instance as left, and how the call ended.
__set__(va, obj, value) ==
    IF N_schemaless \notin DOMAIN obj
    THEN [obj |-> obj, outcome |-> "AttributeError"]
    ELSE LET o1 == IF obj[N_schemaless].isNone
                   THEN [obj EXCEPT ![N_schemaless] = ColDict(<< >>)]
                   ELSE obj
         IN  IF ~va.bound THEN [obj |-> o1, outcome |-> "AttributeError"]
             ELSE [obj |-> [o1 EXCEPT ![N_schemaless].d =
                                 (va.attr_name :> value) @@ @],
                   outcome |-> "return"]

\* Model.attributes = attrs: setattr for each item, in the dict's order, up to
\* the first that raises.
RECURSIVE attributes_setter(_, _, _)
attributes_setter(klass, obj, attrs) ==
    IF attrs = <<>> THEN [obj |-> obj, outcome |-> "return"]
    ELSE LET r == __set__(Vattr(klass, Head(attrs).key), obj, Head(attrs).value)
         IN  IF r.outcome # "return" THEN r
             ELSE attributes_setter(klass, r.obj, Tail(attrs))

\* obj.key = value, key a virtual attribute of the class.
SetVAttr(o, key, value) ==
    /\ clsPc = "mapped"
    /\ IsVattr(cls, key)
    /\ LET r == __set__(Vattr(cls, key), objs[o], value) IN
        /\ objs' = [objs EXCEPT ![o] = r.obj]
        /\ ret' = [op |-> "set", obj |-> o, key |-> key, value |-> value,
                   outcome |-> r.outcome]
        /\ UNCHANGED <<schemaReports, validatableDoes>>
    /\ ObjFrame

\* obj.key, key a virtual attribute of the class.
GetVAttr(o, key) ==
    /\ clsPc = "mapped"
    /\ IsVattr(cls, key)
    /\ LET r == __get__(Vattr(cls, key), objs[o]) IN
        ret' = [op |-> "get", obj |-> o, key |-> key, value |-> r.value,
                outcome |-> r.outcome]
    /\ UNCHANGED <<objs, schemaReports, validatableDoes>>
    /\ ObjFrame

\* obj.attributes = attrs
SetAttributes(o, attrs) ==
    /\ clsPc = "mapped"
    /\ \A i \in 1..Len(attrs) : IsVattr(cls, attrs[i].key)
    /\ LET r == attributes_setter(cls, objs[o], attrs) IN
        /\ objs' = [objs EXCEPT ![o] = r.obj]
        /\ ret' = [op |-> "attributes", obj |-> o, attrs |-> attrs,
                   outcome |-> r.outcome]
        /\ UNCHANGED <<schemaReports, validatableDoes>>
    /\ ObjFrame

\* obj.column = value, column a schemaless column: the backing data is
\* replaced as a whole.
SetColumn(o, column, value) ==
    /\ clsPc = "mapped"
    /\ column \in DOMAIN objs[o]
    /\ objs[o][column] # value
    /\ objs' = [objs EXCEPT ![o][column] = value]
    /\ ret' = [op |-> "setcol", obj |-> o, key |-> column]
    /\ UNCHANGED <<schemaReports, validatableDoes>>
    /\ ObjFrame

\* The class with its schema, as class creation and mapper configuration
\* leave it.
Mapped(b) ==
    LET k == ModelMetaclass_init(b) IN [k EXCEPT !.schema = generate_schema(k)]

VattrKeys == {N_a, N_b}

\* The dicts a schemaless column may hold.
ColumnValues ==
    {ColNone} \cup {ColDict(d) : d \in UNION {[ks -> Values] : ks \in SUBSET VattrKeys}}

\* The dicts assigned to Model.attributes: items in order, no key twice.
AttrDicts ==
    {<<>>} \cup {<<[key |-> k, value |-> v]>> : k \in VattrKeys, v \in Values}
        \cup {<<[key |-> p[1], value |-> v1], [key |-> p[2], value |-> v2]>> :
                p \in {q \in VattrKeys \X VattrKeys : q[1] # q[2]},
                v1 \in Values, v2 \in Values}

\* Model classes with two virtual attributes: `a` with any default and either
\* backing column, `b` on the default column.
VABodies ==
    {Body(<<SchemalessColumn(N_schemaless), SchemalessColumn(N_extra)>>,
          <<Entry(N_a, da, fa), Entry(N_b, db, N_schemaless)>>, FALSE) :
        da \in {Undefined, PyNone} \cup Values,
        fa \in {N_schemaless, N_extra},
        db \in {Undefined, PyNone}}

(***************************************************************************)
(* Validation (pyvoog/model.py, Model.validate).                           *)
(*                                                                         *)
(* What the schema reports (schema.validate) and what each Validatable     *)
(* does (is_valid returns, or raises ValidationError with its messages)    *)
(* are the inputs.  An error dict maps attribute names to message lists.   *)
(***************************************************************************)
MaxMsgs == 1

Msgs == {"m1", "m2"}

\* The message lists of at most MaxMsgs messages, and the non-empty ones.
MsgLists == UNION {[1..n -> Msgs] : n \in 0..MaxMsgs}
MsgLists1 == MsgLists \ {<<>>}

Passes == [raises |-> FALSE, messages |-> <<>>]
Raises(messages) == [raises |-> TRUE, messages |-> messages]
ValidatableOutcomes == {Passes} \cup {Raises(ms) : ms \in MsgLists}

\* Model._get_attr_dict: getattr for every schema field, in the schema's
\* order, up to the first that raises.  A column reads as its value (None
\* here), a virtual attribute through its descriptor.
RECURSIVE _get_attr_dict(_, _, _, _)
_get_attr_dict(klass, obj, schema_fields, attr_dict) ==
    IF schema_fields = <<>> THEN [outcome |-> "return", attrs |-> attr_dict]
    ELSE LET k == Head(schema_fields).key
             r == IF IsVattr(klass, k) THEN __get__(Vattr(klass, k), obj)
                  ELSE Return(PyNone)
         IN  IF r.outcome # "return" THEN [outcome |-> r.outcome, attrs |-> << >>]
             ELSE _get_attr_dict(klass, obj, Tail(schema_fields),
                                 (k :> r.value) @@ attr_dict)

\* itertools.chain(columns, vattrs), the Validatables among them, by name.
ValidatableChain(klass) ==
    LET cols == SelectSeq(klass.columns, LAMBDA c : c.validatable)
        vas == _get_vattrs(klass)
    IN  [i \in 1..Len(cols) |-> cols[i].name] \o [i \in 1..Len(vas) |-> vas[i].attr_name]

\* Model._run_attr_validations: the (name, messages) pairs yielded, in order.
RECURSIVE _run_attr_validations(_, _)
_run_attr_validations(chain, outcomes) ==
    IF chain = <<>> THEN <<>>
    ELSE (IF Head(outcomes).raises
          THEN <<[name |-> Head(chain), messages |-> Head(outcomes).messages]>>
          ELSE <<>>)
         \o _run_attr_validations(Tail(chain), Tail(outcomes))

\* A merge that overwrites an attribute's messages (dict.update).
always_merger_merge_override(base, nxt) ==
    [k \in DOMAIN base \cup DOMAIN nxt |-> IF k \in DOMAIN nxt THEN nxt[k] ELSE base[k]]

\* deepmerge's always_merger.merge on dicts of lists: a key of both sides
\* holds the base's list with the other's appended.
always_merger_merge(base, nxt) ==
    [k \in DOMAIN base \cup DOMAIN nxt |->
        IF k \in DOMAIN base /\ k \in DOMAIN nxt THEN base[k] \o nxt[k]
        ELSE IF k \in DOMAIN nxt THEN nxt[k]
        ELSE base[k]]

RECURSIVE MergeYielded(_, _)
MergeYielded(errors, yielded) ==
    IF yielded = <<>> THEN errors
    ELSE MergeYielded(
            always_merger_merge(errors, Head(yielded).name :> Head(yielded).messages),
            Tail(yielded))

\* A validate that raises on the schema's errors alone.
validate_schema_only(klass, obj, schema_errors, outcomes) ==
    LET a == _get_attr_dict(klass, obj, klass.schema.fields, << >>) IN
    IF a.outcome # "return"
    THEN [outcome |-> a.outcome, ran |-> FALSE, errors |-> << >>]
    ELSE LET errors == MergeYielded(schema_errors,
                          _run_attr_validations(ValidatableChain(klass), outcomes))
         IN  IF DOMAIN schema_errors # {}
             THEN [outcome |-> "ValidationError", ran |-> TRUE, errors |-> errors]
             ELSE [outcome |-> "return", ran |-> TRUE, errors |-> errors]

\* Model.validate: how it ends, whether the two sources were run, and the
\* error dict (the messages of the ValidationError it raises).
validate(klass, obj, schema_errors, outcomes) ==
    LET a == _get_attr_dict(klass, obj, klass.schema.fields, << >>) IN
    IF a.outcome # "return"
    THEN [outcome |-> a.outcome, ran |-> FALSE, errors |-> << >>]
    ELSE LET errors == MergeYielded(schema_errors,
                          _run_attr_validations(ValidatableChain(klass), outcomes))
         IN  IF DOMAIN errors # {}
             THEN [outcome |-> "ValidationError", ran |-> TRUE, errors |-> errors]
             ELSE [outcome |-> "return", ran |-> TRUE, errors |-> errors]

\* obj.validate(): the schema reports schemaReports, the i-th Validatable
\* does validatableDoes[i].  Neither is asked when the attributes cannot be
\* read.
Validate(o) ==
    /\ clsPc = "mapped"
    /\ LET r == validate(cls, objs[o], schemaReports, validatableDoes) IN
        ret' = [op |-> "validate", obj |-> o, outcome |-> r.outcome, ran |-> r.ran,
                errors |-> r.errors]
    /\ UNCHANGED <<objs, schemaReports, validatableDoes>>
    /\ ObjFrame

\* What schema.validate may return for the class: any fields, any messages.
SchemaErrors(klass) ==
    UNION {[ks -> MsgLists1] : ks \in SUBSET DictKeys(klass.schema.fields)}

\* Model classes with a column `title`, Validatable or not, and a virtual
\* attribute `a` with or without a default.
ValidateBodies ==
    {Body(<<title, SchemalessColumn(N_schemaless)>>,
          <<Entry(N_a, da, N_schemaless)>>, FALSE) :
        title \in {Column(N_title, [sql |-> "String", length |-> {}], FALSE),
                   ValidatableColumn(N_title, [sql |-> "String", length |-> {}], FALSE)},
        da \in {Undefined, PyNone}}

(***************************************************************************)
(* Idle values, initial states, next-state relations, specifications.      *)
(***************************************************************************)
EpIdle ==
    /\ heap = EndpointDef
    /\ endpoints = <<>>
    /\ epLast = [op |-> "none"]
    /\ epPrev = <<>>

TsIdle ==
    /\ sysOffset = 0
    /\ tsIn = NoDt
    /\ tsBound = NoDt
    /\ tsStored = NoDt
    /\ tsOut = NoDt
    /\ tsPc = "idle"

QIdle ==
    /\ scopeAttr = "absent"
    /\ scopeEnv = << >>
    /\ query = select_model
    /\ qLast = [op |-> "none", args |-> <<>>, scope |-> << >>]

ClsIdle ==
    /\ body = Body(<<>>, <<>>, FALSE)
    /\ cls = NoClass
    /\ clsPc = "idle"

ObjIdle ==
    /\ objs = << >>
    /\ ret = [op |-> "none"]
    /\ schemaReports = << >>
    /\ validatableDoes = <<>>

InitEndpoint == EpIdle /\ TsIdle /\ QIdle /\ ClsIdle /\ ObjIdle

NextEndpoint ==
    \/ \E p \in Paths, a \in Actions : Construct(p, a)
    \/ \E p \in Paths, a \in Actions, ms \in MethodLists : ConstructWith(p, a, ms)
    \/ \E e \in 1..MaxEndpoints, v \in Verbs : AppendMethod(e, v)
    \/ \E e \in 1..MaxEndpoints : PopMethod(e)

SpecEndpoint == InitEndpoint /\ [][NextEndpoint]_vars

InitClass ==
    /\ body \in ClassBodies
    /\ cls = NoClass
    /\ clsPc = "body"
    /\ EpIdle /\ TsIdle /\ QIdle /\ ObjIdle

NextClass ==
    \/ MetaclassInit
    \/ DeclareLast

SpecClass == InitClass /\ [][NextClass]_vars

InitVA ==
    /\ body \in VABodies
    /\ cls = Mapped(body)
    /\ clsPc = "mapped"
    /\ objs = [o \in Objs |-> NewObject(cls)]
    /\ ret = [op |-> "none"]
    /\ schemaReports = << >>
    /\ validatableDoes = <<>>
    /\ EpIdle /\ TsIdle /\ QIdle

\* One instance is written and read; the others stay as created.
NextVA ==
    \/ \E o \in {1}, k \in VattrKeys, v \in Values : SetVAttr(o, k, v)
    \/ \E o \in {1}, k \in VattrKeys : GetVAttr(o, k)
    \/ \E o \in {1}, f \in {N_schemaless, N_extra}, cv \in ColumnValues :
          SetColumn(o, f, cv)

SpecVA == InitVA /\ [][NextVA]_vars

NextAssign ==
    \/ \E o \in Objs, k \in VattrKeys, v \in Values : SetVAttr(o, k, v)
    \/ \E o \in Objs, attrs \in AttrDicts : SetAttributes(o, attrs)

SpecAssign == InitVA /\ [][NextAssign]_vars

InitValidate ==
    /\ body \in ValidateBodies
    /\ cls = Mapped(body)
    /\ clsPc = "mapped"
    /\ objs = [o \in Objs |-> NewObject(cls)]
    /\ ret = [op |-> "none"]
    /\ schemaReports \in SchemaErrors(cls)
    /\ validatableDoes \in [1..Len(ValidatableChain(cls)) -> ValidatableOutcomes]
    /\ EpIdle /\ TsIdle /\ QIdle

\* One instance is written and validated; the others stay as created.
NextValidate ==
    \/ \E o \in {1}, k \in {N_a}, v \in Values : SetVAttr(o, k, v)
    \/ \E o \in {1}, cv \in {ColNone, ColDict(<< >>)} : SetColumn(o, N_schemaless, cv)
    \/ \E o \in {1} : Validate(o)

SpecValidate == InitValidate /\ [][NextValidate]_vars

InitTime ==
    /\ sysOffset \in Offsets
    /\ tsIn \in Datetimes \cup {NoneDt}
    /\ tsBound = NoDt
    /\ tsStored = NoDt
    /\ tsOut = NoDt
    /\ tsPc = "new"
    /\ EpIdle /\ QIdle /\ ClsIdle /\ ObjIdle

NextTime ==
    \/ Bind
    \/ StoreNaive
    \/ \E o \in Offsets : StoreAware(o)
    \/ Load
    \/ \E d \in Datetimes \cup {NoneDt} : LoadForeign(d)

SpecTime == InitTime /\ [][NextTime]_vars

InitQuery ==
    /\ scopeAttr \in {"absent", "None", "callable"}
    /\ scopeEnv \in ScopeDicts
    /\ query = select_model
    /\ qLast = [op |-> "none", args |-> <<>>, scope |-> << >>]
    /\ EpIdle /\ TsIdle /\ ClsIdle /\ ObjIdle

NextQuery ==
    \/ \E args \in ArgLists : GetScopedQuery(args)
    \/ ScopedQuery
    \/ \E d \in ScopeDicts : SetScopeEnv(d)

SpecQuery == InitQuery /\ [][NextQuery]_vars

(***************************************************************************)
(* C10: Endpoint instances are independent.  A newly constructed Endpoint  *)
(* holds the path and action it was given and, when constructed without a  *)
(* methods argument, methods equal to ["GET"]; mutating the methods of one *)
(* Endpoint constructed without a methods argument changes the methods of  *)
(* no other Endpoint.                                                      *)
(***************************************************************************)
C10_EndpointsIndependent ==
    /\ epLast.op = "new" =>
          /\ endpoints[epLast.ep].path = epLast.path
          /\ endpoints[epLast.ep].action = epLast.action
          /\ epLast.dflt => Methods(epLast.ep) = <<"GET">>
    /\ (epLast.op = "mutate" /\ epLast.dflt) =>
          \A e \in 1..Len(endpoints) :
              e # epLast.ep => Methods(e) = epPrev[e]

(***************************************************************************)
(* C7: get_scoped_query returns a statement with the model's default scope *)
(* applied.  With a truthy default_scope the statement is filtered by      *)
(* exactly the conditions default_scope() returned at the time of the      *)
(* call, without arguments (select of the model) and with arguments        *)
(* (select of them, the table given to select_from); with none, it carries *)
(* no filter.  scoped_query returns what get_scoped_query() returns.       *)
(***************************************************************************)
C7_ScopedQuery ==
    qLast.op # "none" =>
        /\ query.where =
              (IF scopeAttr = "callable" THEN Conditions(qLast.scope) ELSE {})
        /\ qLast.args = <<>> =>
              (query.columns = <<"Model">> /\ query.from = "")
        /\ qLast.args # <<>> =>
              (query.columns = qLast.args /\ query.from = "Model")

\* A scoped select of columns, returned before the scope's value moved on.
C7_Witness ==
    /\ qLast.op = "get_scoped_query"
    /\ qLast.args # <<>>
    /\ scopeAttr = "callable"
    /\ qLast.scope # << >>
    /\ scopeEnv # qLast.scope
    /\ query.where # {}

(***************************************************************************)
(* C8: UTCTimeStamp stores and returns timestamps as UTC.  For an aware d, *)
(* process_bind_param(d) is the instant of d at offset zero.               *)
(* process_result_value returns an aware value at offset zero: it keeps    *)
(* the wall clock of a naive stored value and the instant of an aware one. *)
(* Hence binding d, dropping the time zone and converting the result gives *)
(* the instant of d.                                                       *)
(***************************************************************************)
C8_UTCRoundTrip ==
    /\ (tsPc \in {"bound", "stored", "loaded"} /\ IsAware(tsIn)) =>
          /\ IsAware(tsBound)
          /\ tsBound.off = 0
          /\ Instant(tsBound) = Instant(tsIn)
    /\ (tsPc \in {"loaded", "foreign"} /\ IsDatetime(tsStored)) =>
          /\ IsAware(tsOut)
          /\ tsOut.off = 0
          /\ IsNaive(tsStored) => tsOut.wall = tsStored.wall
          /\ IsAware(tsStored) => Instant(tsOut) = Instant(tsStored)
    /\ (tsPc = "loaded" /\ IsAware(tsIn) /\ IsNaive(tsStored)) =>
          Instant(tsOut) = Instant(tsIn)

\* An aware value off UTC went through a database that dropped its zone, on a
\* system that is itself off UTC.
C8_Witness ==
    /\ tsPc = "loaded"
    /\ IsAware(tsIn)
    /\ tsIn.off # 0
    /\ sysOffset # 0
    /\ IsNaive(tsStored)
    /\ IsAware(tsOut)

(***************************************************************************)
(* C5: after a model class has been created, every VirtualAttribute of the *)
(* class body has its name bound to the key it was declared under, so that *)
(* every virtual attribute _get_vattrs returns has a defined name.         *)
(***************************************************************************)
C5_NamesBound ==
    clsPc \in {"created", "mapped", "failed"} =>
        \A i \in 1..Len(cls.dict) :
            /\ cls.dict[i].va.bound
            /\ cls.dict[i].va.attr_name = cls.dict[i].key

\* The columns that get a schema field, and the field generated for a name.
SchemaColumns(klass) ==
    {c \in Range(klass.columns) : c.name # N_id /\ ~c.schemaless}

SchemaField(klass, name) ==
    klass.schema.fields[DictGet(klass.schema.fields, name)].value

(***************************************************************************)
(* C6: the schema generated for a model has as field names exactly the     *)
(* names of the model's columns, those named "id" and the                  *)
(* SchemalessColumns left out, together with the names of its virtual      *)
(* attributes.  The field of a nullable column has allow_none and is not   *)
(* required, the field of a non-nullable column is required, and the field *)
(* of a virtual attribute has allow_none.                                  *)
(***************************************************************************)
C6_SchemaFields ==
    cls.schema.ok =>
        /\ DictKeys(cls.schema.fields) =
              {c.name : c \in SchemaColumns(cls)}
                  \cup {cls.dict[i].va.attr_name : i \in 1..Len(cls.dict)}
        /\ \A c \in SchemaColumns(cls) :
              /\ c.nullable =>
                    (SchemaField(cls, c.name).allow_none
                        /\ ~SchemaField(cls, c.name).required)
              /\ ~c.nullable => SchemaField(cls, c.name).required
        /\ \A i \in 1..Len(cls.dict) :
              SchemaField(cls, cls.dict[i].va.attr_name).allow_none

\* A schema generated for a class with a non-nullable column, both schemaless
\* columns, the timestamps and two virtual attributes.
C6_Witness ==
    /\ clsPc = "mapped"
    /\ cls.schema.ok
    /\ Len(cls.dict) = 2
    /\ body.include_timestamps
    /\ \E c \in Range(cls.columns) : c.name = N_title /\ ~c.nullable
    /\ \E c \in Range(cls.columns) : c.name = N_extra
    /\ Len(cls.schema.fields) = 5

(***************************************************************************)
(* C3: a virtual attribute is stored in and read from the column its       *)
(* schemaless_field names.  After assigning v to the attribute named n,    *)
(* that column of the object is a dict whose key n holds v, and reading    *)
(* the attribute returns v.                                                *)
(***************************************************************************)
C3_StoredInBackingColumn ==
    (ret.op = "set" /\ ret.outcome = "return") =>
        LET va == Vattr(cls, ret.key)
            col == objs[ret.obj][va.schemaless_field]
        IN  /\ ~col.isNone
            /\ va.attr_name \in DOMAIN col.d
            /\ col.d[va.attr_name] = ret.value
            /\ __get__(va, objs[ret.obj]) = Return(ret.value)

(***************************************************************************)
(* C4: when the lookup of a virtual attribute fails (the backing column is *)
(* None, or its dict has no key for the attribute), the default is         *)
(* returned whenever one was given, None included, and a KeyError is       *)
(* raised when none was given; when the key is present the stored value is *)
(* returned.                                                               *)
(***************************************************************************)
C4_DefaultOrKeyError ==
    ret.op = "get" =>
        LET va == Vattr(cls, ret.key)
            col == objs[ret.obj][va.schemaless_field]
            fails == col.isNone \/ va.attr_name \notin DOMAIN col.d
        IN  /\ (fails /\ va.default # Undefined) =>
                  (ret.outcome = "return" /\ ret.value = va.default)
            /\ (fails /\ va.default = Undefined) => ret.outcome = "KeyError"
            /\ ~fails =>
                  (ret.outcome = "return" /\ ret.value = col.d[va.attr_name])

\* What one assignment, or one run of the attributes setter, must leave behind.
AssignedKeys(attrs) == {attrs[i].key : i \in 1..Len(attrs)}

AssignPost(o, attrs) ==
    /\ \A o2 \in Objs \ {o} : objs'[o2] = objs[o2]
    /\ \A i \in 1..Len(attrs) :
          LET va == Vattr(cls, attrs[i].key)
              col == objs'[o][va.schemaless_field]
          IN  /\ ~col.isNone
              /\ va.attr_name \in DOMAIN col.d
              /\ col.d[va.attr_name] = attrs[i].value
              /\ __get__(va, objs'[o]) = Return(attrs[i].value)
    /\ \A f \in DOMAIN objs[o] :
          \A k \in DOMAIN objs[o][f].d \ AssignedKeys(attrs) :
              /\ k \in DOMAIN objs'[o][f].d
              /\ objs'[o][f].d[k] = objs[o][f].d[k]
    /\ \A k \in VattrKeys \ AssignedKeys(attrs) :
          __get__(Vattr(cls, k), objs'[o]) = __get__(Vattr(cls, k), objs[o])

(***************************************************************************)
(* C9: assigning a virtual attribute changes only that attribute's entry.  *)
(* Every assignment of a sequence leaves its backing column a dict holding *)
(* the value under the attribute's name, leaves every other key of the     *)
(* object's dicts, the value read for every other virtual attribute and    *)
(* every other object as they were, and the attribute then reads as the    *)
(* value assigned.                                                         *)
(***************************************************************************)
C9_AssignmentFrame ==
    [][/\ (ret'.op = "set" /\ ret'.outcome = "return") =>
              AssignPost(ret'.obj, <<[key |-> ret'.key, value |-> ret'.value]>>)
       /\ (ret'.op = "attributes" /\ ret'.outcome = "return") =>
              AssignPost(ret'.obj, ret'.attrs)]_vars

\* One of the two validation sources was asked and reported an error.
Reported ==
    /\ ret.ran
    /\ \/ DOMAIN schemaReports # {}
       \/ \E i \in 1..Len(validatableDoes) : validatableDoes[i].raises

\* Every virtual attribute of the class reads without raising.
Readable(klass, obj) ==
    \A i \in 1..Len(klass.dict) : __get__(klass.dict[i].va, obj).outcome = "return"

(***************************************************************************)
(* C1: Model.validate raises ValidationError if and only if one of the two *)
(* validation sources reports an error (the schema returns a non-empty     *)
(* error dict, or the is_valid of some Validatable raises), and returns    *)
(* normally when neither does.                                             *)
(***************************************************************************)
C1_ValidateIff ==
    ret.op = "validate" =>
        /\ Reported <=> ret.outcome = "ValidationError"
        /\ ~Reported => ret.outcome = "return"

(***************************************************************************)
(* C1, amended: for an object whose attributes can all be read (every      *)
(* virtual attribute has a stored value or a default), validate raises     *)
(* ValidationError if and only if one of the two sources reports an error  *)
(* and returns normally when neither does; for any other object it raises  *)
(* the lookup's KeyError or TypeError and asks neither source.             *)
(***************************************************************************)
C1_ValidateIffReadable ==
    ret.op = "validate" =>
        /\ Readable(cls, objs[ret.obj]) =>
              /\ ret.ran
              /\ Reported <=> ret.outcome = "ValidationError"
              /\ ~Reported <=> ret.outcome = "return"
        /\ ~Readable(cls, objs[ret.obj]) =>
              /\ ~ret.ran
              /\ ret.outcome \in {"KeyError", "TypeError"}

\* validate raised on a Validatable's word alone, its message list empty.
C1_Witness ==
    /\ ret.op = "validate"
    /\ ret.ran
    /\ ret.outcome = "ValidationError"
    /\ DOMAIN schemaReports = {}
    /\ \A i \in 1..Len(validatableDoes) : validatableDoes[i].messages = <<>>

\* The messages under a name, and how often the failing Validatables of that
\* name reported a message.
MessagesOf(errors, name) == IF name \in DOMAIN errors THEN errors[name] ELSE <<>>

ReportedBy(chain, name, m) ==
    SeqSum([i \in 1..Len(chain) |->
              IF validatableDoes[i].raises /\ chain[i] = name
              THEN Count(validatableDoes[i].messages, m) ELSE 0])

====
